---- MODULE Spec2Model ----
(***************************************************************************)
(* Organization Management Service: the registry (master database), the    *)
(* per-organization tenant databases, OrganizationService and AuthService  *)
(* (src/src/services.js), DatabaseManager (database.js), TokenManager and  *)
(* PasswordManager (auth.js) and the routes' authentication gate           *)
(* (routes.js).  Every store round trip of a handler is one atomic step.   *)
(***************************************************************************)
EXTENDS Integers, Sequences, FiniteSets, TLC

(***************************************************************************)
(* Bounds of the model.                                                    *)
(***************************************************************************)
MaxOps == 4
MaxTicks == 1

(***************************************************************************)
(* Program constants.                                                      *)
(***************************************************************************)
MinPasswordLength == 6
AccessTokenTtl == 900
RefreshTokenTtl == 604800
ExpiresIn == 15 * 60

(***************************************************************************)
(* Inputs.  Names are sequences of characters, emails are sequences of     *)
(* their parts (local part, "@", domain), passwords are strings.           *)
(***************************************************************************)
NameAB == <<"A", " ", "b">>
NameA2B == <<"a", " ", " ", "b">>
NameCo == <<"C", "o">>
NoName == <<>>
OrgNames == {NameAB, NameA2B, NameCo}

\* a name that differs from NameAB by the case of a letter only; it is looked up, never created
NameLowerAB == <<"a", " ", "b">>
GetNames == OrgNames \cup {NameLowerAB}

Email1 == <<"a", "@", "x.io">>
Email2 == <<"b", "@", "x.io">>
BadEmail == <<"a", "x.io">>
NoEmail == <<>>
Emails == {Email1, Email2}

Password1 == "secret1"
Password2 == "secret2"
ShortPassword == "short"
NoPassword == ""
Passwords == {Password1, Password2}

Procs == {"w1", "w2"}
SeqProcs == {"w1"}

VARIABLES
  orgs,      \* master database, collection organizations
  admins,    \* master database, collection admin_users
  tenants,   \* the per-organization databases, by database name
  issued,    \* the tokens signed by this server so far
  now,       \* the clock, in seconds
  pc,        \* each request handler's position
  req,       \* each handler's request
  loc,       \* each handler's local variables
  resp,      \* each handler's last response
  ops,       \* requests started
  ticks,     \* clock advances
  sessions,  \* history: the token pairs returned by logins, in order
  races,     \* history: pairs of creations of one name that both passed the pre-check
  createdOk  \* history: the creations that returned success, by request number

store == <<orgs, admins, tenants>>
history == <<sessions, races, createdOk>>
vars == <<orgs, admins, tenants, issued, now, pc, req, loc, resp, ops, ticks, sessions, races, createdOk>>

(***************************************************************************)
(* validator.isEmail: one "@" with a local part before and a domain after. *)
(***************************************************************************)
IsEmail(e) ==
  /\ Cardinality({i \in 1..Len(e) : e[i] = "@"}) = 1
  /\ e[1] # "@"
  /\ e[Len(e)] # "@"

(***************************************************************************)
(* String.prototype.toLowerCase and /\s+/g replaced by "_".                *)
(***************************************************************************)
IsSpace(c) == c \in {" ", "\t"}

ToLowerChar(c) ==
  CASE c = "A" -> "a"
    [] c = "B" -> "b"
    [] c = "C" -> "c"
    [] c = "O" -> "o"
    [] OTHER -> c

ToLowerCase(s) == [i \in 1..Len(s) |-> ToLowerChar(s[i])]

RECURSIVE ReplaceSpaceRuns(_)
ReplaceSpaceRuns(s) ==
  IF s = <<>> THEN <<>>
  ELSE IF IsSpace(Head(s))
       THEN IF Len(s) > 1 /\ IsSpace(s[2])
            THEN ReplaceSpaceRuns(Tail(s))
            ELSE <<"_">> \o ReplaceSpaceRuns(Tail(s))
       ELSE <<Head(s)>> \o ReplaceSpaceRuns(Tail(s))

\* a derivation that replaces every whitespace character, not every run of them
DbNameOf_EachSpace(orgName) ==
  <<"o", "r", "g", "_">> \o
    [i \in 1..Len(orgName) |-> IF IsSpace(orgName[i]) THEN "_" ELSE ToLowerChar(orgName[i])]

DbNameOf(orgName) == <<"o", "r", "g", "_">> \o ReplaceSpaceRuns(ToLowerCase(orgName))

DbNames == {DbNameOf(n) : n \in OrgNames}

(***************************************************************************)
(* PasswordManager: bcrypt with a fresh salt; compare re-hashes the        *)
(* candidate with the salt kept in the hash.                               *)
(***************************************************************************)
HashPassword(password, salt) == [salt |-> salt, pw |-> password]

\* a comparison that accepts every password
VerifyPassword_Always(password, hashedPassword) == TRUE

VerifyPassword(password, hashedPassword) ==
  HashPassword(password, hashedPassword.salt) = hashedPassword

NoPwHash == [salt |-> 0, pw |-> ""]

(***************************************************************************)
(* TokenManager.  A signed token is determined by its payload: jwt.sign    *)
(* adds iat (the clock, whole seconds) and exp = iat + expiresIn.          *)
(***************************************************************************)
NoToken == [sub |-> 0, org_id |-> 0, org_name |-> NoName, role |-> "", type |-> "null", iat |-> 0, exp |-> 0]
ForgedToken == [sub |-> 0, org_id |-> 0, org_name |-> NoName, role |-> "admin", type |-> "forged", iat |-> 0, exp |-> 0]

CreateAccessToken(adminId, orgId, orgName, role, t) ==
  [sub |-> adminId, org_id |-> orgId, org_name |-> orgName, role |-> role,
   type |-> "", iat |-> t, exp |-> t + AccessTokenTtl]

CreateRefreshToken(adminId, orgId, t) ==
  [sub |-> adminId, org_id |-> orgId, org_name |-> NoName, role |-> "",
   type |-> "refresh", iat |-> t, exp |-> t + RefreshTokenTtl]

\* a verification of the signature alone
VerifyToken_NoExpiry(token) == token \in issued

\* jwt.verify: the signature is this server's and the token has not expired.
VerifyToken(token) == token \in issued /\ now < token.exp

HashToken(token) == [sha256 |-> token]
NoTokenHash == [sha256 |-> NoToken]

(***************************************************************************)
(* Documents.                                                              *)
(***************************************************************************)
NoOrg == [id |-> 0, organization_name |-> NoName, db_name |-> <<>>, admin_email |-> NoEmail, admin_user_id |-> 0]
NoAdmin == [id |-> 0, admin_email |-> NoEmail, password |-> NoPwHash, role |-> "",
            organization_id |-> 0, organization_name |-> NoName, refresh_token_hash |-> NoTokenHash]
NoTenant == [exists |-> FALSE, uniqueEmail |-> FALSE, users |-> {}]

NoReq == [op |-> "none", no |-> 0, name |-> NoName, email |-> NoEmail, password |-> NoPassword,
          token |-> NoToken, adminId |-> 0]
NoResp == [op |-> "none", ok |-> FALSE, status |-> 0, error |-> "", id |-> 0,
           organization_name |-> NoName, db_name |-> <<>>, admin_email |-> NoEmail,
           access_token |-> NoToken, refresh_token |-> NoToken, expires_in |-> 0,
           admin_id |-> 0, organization_id |-> 0, role |-> ""]

NoLoc == [org |-> NoOrg, dbName |-> <<>>, hashed |-> NoPwHash,
          userId |-> 0, adminId |-> 0, orgId |-> 0, result |-> NoResp]

Ok(op) == [NoResp EXCEPT !.op = op, !.ok = TRUE, !.status = 200]
Err(op, status, error) == [NoResp EXCEPT !.op = op, !.status = status, !.error = error]

\* new ObjectId(): the k-th document inserted by request number no; never repeated
NewObjectId(no, k) == 3 * (no - 1) + k

\* collection.findOne(filter): the document matching, or null
FindOrg(orgName) ==
  IF \E o \in orgs : o.organization_name = orgName
  THEN CHOOSE o \in orgs : o.organization_name = orgName
  ELSE NoOrg

FindAdminByEmail(email) ==
  IF \E a \in admins : a.admin_email = email
  THEN CHOOSE a \in admins : a.admin_email = email
  ELSE NoAdmin

FindAdminById(id) ==
  IF \E a \in admins : a.id = id
  THEN CHOOSE a \in admins : a.id = id
  ELSE NoAdmin

FindAdminByOrgId(orgId) ==
  IF \E a \in admins : a.organization_id = orgId
  THEN CHOOSE a \in admins : a.organization_id = orgId
  ELSE NoAdmin

(***************************************************************************)
(* startServer: connected, the unique indexes on organizations             *)
(* (organization_name) and admin_users (admin_email) exist, no documents.  *)
(***************************************************************************)
Init ==
  /\ orgs = {}
  /\ admins = {}
  /\ tenants = [d \in DbNames |-> NoTenant]
  /\ issued = {}
  /\ now = 0
  /\ pc = [p \in Procs |-> "idle"]
  /\ req = [p \in Procs |-> NoReq]
  /\ loc = [p \in Procs |-> NoLoc]
  /\ resp = [p \in Procs |-> NoResp]
  /\ ops = 0
  /\ ticks = 0
  /\ sessions = <<>>
  /\ races = {}
  /\ createdOk = {}

\* a handler returns: its response is kept until its next request
Return(p, r) ==
  /\ pc' = [pc EXCEPT ![p] = "idle"]
  /\ resp' = [resp EXCEPT ![p] = r]
  /\ loc' = [loc EXCEPT ![p] = NoLoc]

Goto(p, label, l) ==
  /\ pc' = [pc EXCEPT ![p] = label]
  /\ loc' = [loc EXCEPT ![p] = l]
  /\ resp' = resp

\* a request arrives at an idle handler
Begin(p, r) ==
  /\ pc[p] = "idle"
  /\ ops < MaxOps
  /\ ops' = ops + 1
  /\ req' = [req EXCEPT ![p] = [r EXCEPT !.no = ops + 1]]

(***************************************************************************)
(* OrganizationService.createOrganization                                  *)
(***************************************************************************)
\* a creation without the existence check of lines 25-33
OrgExists_Skipped(orgName) == FALSE

\* lines 26-31: findOne({organization_name}) finds a record
OrgExists(orgName) == FindOrg(orgName) # NoOrg

\* a creation that looks the name up before it validates the inputs
CreateCheck_ExistsFirst(orgName, email, password) ==
  IF OrgExists(orgName)
  THEN Err("create", 409, "Organization with this name already exists")
  ELSE IF orgName = NoName \/ email = NoEmail \/ password = NoPassword
  THEN Err("create", 400, "Organization name, email, and password are required")
  ELSE IF ~IsEmail(email)
  THEN Err("create", 400, "Invalid email format")
  ELSE IF Len(password) < MinPasswordLength
  THEN Err("create", 400, "Password must be at least 6 characters")
  ELSE NoResp

\* lines 12-33: what the call throws before provisioning anything; NoResp when it goes on
CreateCheck(orgName, email, password) ==
  IF orgName = NoName \/ email = NoEmail \/ password = NoPassword
  THEN Err("create", 400, "Organization name, email, and password are required")
  ELSE IF ~IsEmail(email)
  THEN Err("create", 400, "Invalid email format")
  ELSE IF Len(password) < MinPasswordLength
  THEN Err("create", 400, "Password must be at least 6 characters")
  ELSE IF OrgExists(orgName)
  THEN Err("create", 409, "Organization with this name already exists")
  ELSE NoResp

\* the creations of the same name that passed the pre-check and have not yet written the record
Racing(p, orgName) ==
  {q \in Procs \ {p} : /\ req[q].op = "create"
                       /\ req[q].name = orgName
                       /\ pc[q] \in {"create_db", "create_user", "create_admin", "create_org"}}

CreateOrganization(p, orgName, email, password) ==
  /\ Begin(p, [NoReq EXCEPT !.op = "create", !.name = orgName, !.email = email, !.password = password])
  /\ IF CreateCheck(orgName, email, password) # NoResp
     THEN /\ Return(p, CreateCheck(orgName, email, password))
          /\ races' = races
     ELSE /\ Goto(p, "create_db", NoLoc)
          /\ races' = races \cup {[first |-> req[q].no, second |-> ops + 1, name |-> orgName,
                                   deleted |-> FALSE] : q \in Racing(p, orgName)}
  /\ UNCHANGED <<orgs, admins, tenants, issued, now, ticks, sessions, createdOk>>

\* the catch of lines 87-89
CreateFailed(p) == Return(p, Err("create", 400, "Failed to create organization"))

\* DatabaseManager.createOrgDatabase: unique index on users.email; then the password is hashed
CreateOrgDatabase(p) ==
  /\ pc[p] = "create_db"
  /\ LET dbName == DbNameOf(req[p].name)
         t == tenants[dbName]
         dup == \E u, v \in t.users : u # v /\ u.email = v.email
     IN IF dup
        THEN /\ CreateFailed(p)
             /\ tenants' = tenants
        ELSE /\ tenants' = [tenants EXCEPT ![dbName] = [t EXCEPT !.exists = TRUE, !.uniqueEmail = TRUE]]
             /\ Goto(p, "create_user", [loc[p] EXCEPT !.dbName = dbName,
                                           !.hashed = HashPassword(req[p].password, req[p].no)])
  /\ UNCHANGED <<orgs, admins, issued, now, req, ops, ticks, history>>

\* usersCollection.insertOne in the organization database
CreateInsertUser(p) ==
  /\ pc[p] = "create_user"
  /\ LET t == tenants[loc[p].dbName]
         user == [id |-> NewObjectId(req[p].no, 1), email |-> req[p].email,
                  password |-> loc[p].hashed, role |-> "org_admin"]
     IN IF t.uniqueEmail /\ \E u \in t.users : u.email = req[p].email
        THEN /\ CreateFailed(p)
             /\ tenants' = tenants
        ELSE /\ tenants' = [tenants EXCEPT ![loc[p].dbName] =
                              [t EXCEPT !.exists = TRUE, !.users = t.users \cup {user}]]
             /\ Goto(p, "create_admin", [loc[p] EXCEPT !.userId = user.id])
  /\ UNCHANGED <<orgs, admins, issued, now, req, ops, ticks, history>>

\* an insertion of the admin without the unique index on admin_email
CreateInsertAdmin_NoIndex(p) ==
  /\ pc[p] = "create_admin"
  /\ admins' = admins \cup
       {[id |-> NewObjectId(req[p].no, 2), admin_email |-> req[p].email,
         password |-> loc[p].hashed, role |-> "org_admin", organization_id |-> 0,
         organization_name |-> req[p].name, refresh_token_hash |-> NoTokenHash]}
  /\ Goto(p, "create_org", [loc[p] EXCEPT !.adminId = NewObjectId(req[p].no, 2)])
  /\ UNCHANGED <<orgs, tenants, issued, now, req, ops, ticks, history>>

\* adminCollection.insertOne, under the unique index on admin_email
CreateInsertAdmin(p) ==
  /\ pc[p] = "create_admin"
  /\ LET admin == [id |-> NewObjectId(req[p].no, 2), admin_email |-> req[p].email,
                   password |-> loc[p].hashed, role |-> "org_admin", organization_id |-> 0,
                   organization_name |-> req[p].name, refresh_token_hash |-> NoTokenHash]
     IN IF \E a \in admins : a.admin_email = req[p].email
        THEN /\ CreateFailed(p)
             /\ admins' = admins
        ELSE /\ admins' = admins \cup {admin}
             /\ Goto(p, "create_org", [loc[p] EXCEPT !.adminId = admin.id])
  /\ UNCHANGED <<orgs, tenants, issued, now, req, ops, ticks, history>>

\* an insertion of the organization without the unique index on organization_name
CreateInsertOrg_NoIndex(p) ==
  /\ pc[p] = "create_org"
  /\ orgs' = orgs \cup
       {[id |-> NewObjectId(req[p].no, 3), organization_name |-> req[p].name,
         db_name |-> loc[p].dbName, admin_email |-> req[p].email,
         admin_user_id |-> loc[p].userId]}
  /\ Goto(p, "create_link", [loc[p] EXCEPT !.orgId = NewObjectId(req[p].no, 3)])
  /\ UNCHANGED <<admins, tenants, issued, now, req, ops, ticks, history>>

\* orgsCollection.insertOne, under the unique index on organization_name
CreateInsertOrg(p) ==
  /\ pc[p] = "create_org"
  /\ LET org == [id |-> NewObjectId(req[p].no, 3), organization_name |-> req[p].name,
                 db_name |-> loc[p].dbName, admin_email |-> req[p].email,
                 admin_user_id |-> loc[p].userId]
     IN IF \E o \in orgs : o.organization_name = req[p].name
        THEN /\ CreateFailed(p)
             /\ orgs' = orgs
        ELSE /\ orgs' = orgs \cup {org}
             /\ Goto(p, "create_link", [loc[p] EXCEPT !.orgId = org.id])
  /\ UNCHANGED <<admins, tenants, issued, now, req, ops, ticks, history>>

\* a creation that returns without the back-fill of the admin's organization_id
CreateLinkAdmin_Skip(p) ==
  /\ pc[p] = "create_link"
  /\ Return(p, [Ok("create") EXCEPT !.id = loc[p].orgId, !.organization_name = req[p].name,
                                    !.db_name = loc[p].dbName, !.admin_email = req[p].email])
  /\ createdOk' = createdOk \cup {req[p].no}
  /\ UNCHANGED <<orgs, admins, tenants, issued, now, req, ops, ticks, sessions, races>>

\* adminCollection.updateOne({_id}, {$set: {organization_id}}), then the summary is returned
CreateLinkAdmin(p) ==
  /\ pc[p] = "create_link"
  /\ admins' = {IF a.id = loc[p].adminId THEN [a EXCEPT !.organization_id = loc[p].orgId] ELSE a : a \in admins}
  /\ Return(p, [Ok("create") EXCEPT !.id = loc[p].orgId, !.organization_name = req[p].name,
                                    !.db_name = loc[p].dbName, !.admin_email = req[p].email])
  /\ createdOk' = createdOk \cup {req[p].no}
  /\ UNCHANGED <<orgs, tenants, issued, now, req, ops, ticks, sessions, races>>

(***************************************************************************)
(* OrganizationService.getOrganization                                     *)
(***************************************************************************)
\* a lookup that ignores the case of the letters
GetOrganizationResult_AnyCase(orgName) ==
  IF orgName = NoName
  THEN Err("get", 400, "Organization name is required")
  ELSE IF ~\E o \in orgs : ToLowerCase(o.organization_name) = ToLowerCase(orgName)
  THEN Err("get", 404, "Organization not found")
  ELSE LET org == CHOOSE o \in orgs : ToLowerCase(o.organization_name) = ToLowerCase(orgName)
       IN [Ok("get") EXCEPT !.id = org.id, !.organization_name = org.organization_name,
                            !.db_name = org.db_name, !.admin_email = org.admin_email]

\* lines 95-113: the record of exactly that name, or 'Organization not found'
GetOrganizationResult(orgName) ==
  IF orgName = NoName
  THEN Err("get", 400, "Organization name is required")
  ELSE LET org == FindOrg(orgName)
       IN IF org = NoOrg
          THEN Err("get", 404, "Organization not found")
          ELSE [Ok("get") EXCEPT !.id = org.id, !.organization_name = org.organization_name,
                                 !.db_name = org.db_name, !.admin_email = org.admin_email]

GetOrganization(p, orgName) ==
  /\ Begin(p, [NoReq EXCEPT !.op = "get", !.name = orgName])
  /\ Return(p, GetOrganizationResult(orgName))
  /\ UNCHANGED <<orgs, admins, tenants, issued, now, ticks, history>>

(***************************************************************************)
(* routes.js: extractToken, requireAuth and the routes' ownership check.   *)
(* The gate's answer: "" when the request may proceed.                     *)
(***************************************************************************)
RequireAuth(token) ==
  IF token = NoToken THEN "MISSING_TOKEN"
  ELSE IF ~VerifyToken(token) THEN "INVALID_TOKEN"
  ELSE ""

\* a route without the ownership check
Authorized_Any(user, orgName) == TRUE

Authorized(user, orgName) == user.role = "admin" \/ user.org_name = orgName

Gate(token, orgName) ==
  IF RequireAuth(token) # "" THEN RequireAuth(token)
  ELSE IF ~Authorized(token, orgName) THEN "FORBIDDEN"
  ELSE ""

GateStatus(code) == IF code = "FORBIDDEN" THEN 403 ELSE 401

(***************************************************************************)
(* PUT /org/update and OrganizationService.updateOrganization              *)
(***************************************************************************)
\* what the request is answered before any write; NoResp when it goes on
UpdateCheck(token, orgName, email, password) ==
  IF Gate(token, orgName) # ""
  THEN Err("update", GateStatus(Gate(token, orgName)), Gate(token, orgName))
  ELSE IF orgName = NoName \/ email = NoEmail \/ password = NoPassword
  THEN Err("update", 400, "Organization name, email, and password are required")
  ELSE IF ~IsEmail(email)
  THEN Err("update", 400, "Invalid email format")
  ELSE IF FindOrg(orgName) = NoOrg
  THEN Err("update", 404, "Organization not found")
  ELSE NoResp

\* the catch of lines 167-169
UpdateFailed(p) == Return(p, Err("update", 400, "Failed to update organization"))

\* the gate, validation and the lookup of the organization; the new password is hashed
UpdateOrganization(p, token, orgName, email, password) ==
  /\ Begin(p, [NoReq EXCEPT !.op = "update", !.token = token, !.name = orgName,
                            !.email = email, !.password = password])
  /\ IF UpdateCheck(token, orgName, email, password) # NoResp
     THEN Return(p, UpdateCheck(token, orgName, email, password))
     ELSE Goto(p, "update_admin", [NoLoc EXCEPT !.org = FindOrg(orgName),
                                                !.hashed = HashPassword(password, ops + 1)])
  /\ UNCHANGED <<orgs, admins, tenants, issued, now, ticks, history>>

\* an update that sets the email of the admin and leaves the password hash
UpdateAdmin_EmailOnly(p) ==
  /\ pc[p] = "update_admin"
  /\ admins' = {IF a.organization_id = loc[p].org.id
                THEN [a EXCEPT !.admin_email = req[p].email] ELSE a : a \in admins}
  /\ Goto(p, "update_user", loc[p])
  /\ UNCHANGED <<orgs, tenants, issued, now, req, ops, ticks, history>>

\* adminCollection.updateOne({organization_id}, {$set: {admin_email, password}})
UpdateAdmin(p) ==
  /\ pc[p] = "update_admin"
  /\ LET admin == FindAdminByOrgId(loc[p].org.id)
     IN IF admin = NoAdmin
        THEN /\ admins' = admins
             /\ sessions' = sessions
             /\ Goto(p, "update_user", loc[p])
        ELSE IF \E a \in admins : a # admin /\ a.admin_email = req[p].email
        THEN /\ admins' = admins
             /\ sessions' = sessions
             /\ UpdateFailed(p)
        ELSE /\ admins' = (admins \ {admin}) \cup
                            {[admin EXCEPT !.admin_email = req[p].email, !.password = loc[p].hashed]}
             /\ sessions' = [i \in DOMAIN sessions |->
                               IF sessions[i].org_id = loc[p].org.id
                               THEN [sessions[i] EXCEPT !.stale = TRUE]
                               ELSE sessions[i]]
             /\ Goto(p, "update_user", loc[p])
  /\ UNCHANGED <<orgs, tenants, issued, now, req, ops, ticks, races, createdOk>>

\* getOrgDb, then usersCollection.updateOne({role: 'admin'}, {$set: {email, password}})
UpdateUser(p) ==
  /\ pc[p] = "update_user"
  /\ LET dbName == DbNameOf(req[p].name)
         t == tenants[dbName]
         matching == {u \in t.users : u.role = "admin"}
     IN IF matching = {}
        THEN /\ tenants' = tenants
             /\ Return(p, [Ok("update") EXCEPT !.organization_name = req[p].name])
        ELSE LET user == CHOOSE u \in matching : \A v \in matching : u.id <= v.id
             IN IF t.uniqueEmail /\ \E u \in t.users : u # user /\ u.email = req[p].email
                THEN /\ tenants' = tenants
                     /\ UpdateFailed(p)
                ELSE /\ tenants' = [tenants EXCEPT ![dbName].users = (t.users \ {user}) \cup
                                      {[user EXCEPT !.email = req[p].email, !.password = loc[p].hashed]}]
                     /\ Return(p, [Ok("update") EXCEPT !.organization_name = req[p].name])
  /\ UNCHANGED <<orgs, admins, issued, now, req, ops, ticks, history>>

(***************************************************************************)
(* DELETE /org/delete and OrganizationService.deleteOrganization           *)
(***************************************************************************)
\* what the request is answered before any write; NoResp when it goes on
DeleteCheck(token, orgName) ==
  IF Gate(token, orgName) # ""
  THEN Err("delete", GateStatus(Gate(token, orgName)), Gate(token, orgName))
  ELSE IF orgName = NoName
  THEN Err("delete", 403, "Organization name is required")
  ELSE IF FindOrg(orgName) = NoOrg
  THEN Err("delete", 404, "Organization not found")
  ELSE NoResp

\* the gate, validation and the lookup of the organization
DeleteOrganization(p, token, orgName) ==
  /\ Begin(p, [NoReq EXCEPT !.op = "delete", !.token = token, !.name = orgName])
  /\ IF DeleteCheck(token, orgName) # NoResp
     THEN Return(p, DeleteCheck(token, orgName))
     ELSE Goto(p, "delete_org", [NoLoc EXCEPT !.org = FindOrg(orgName)])
  /\ UNCHANGED <<orgs, admins, tenants, issued, now, ticks, history>>

\* a deletion that leaves the organization record
DeleteOrg_Skip(p) ==
  /\ pc[p] = "delete_org"
  /\ Goto(p, "delete_admin", loc[p])
  /\ UNCHANGED <<orgs, admins, tenants, issued, now, req, ops, ticks, history>>

\* a deletion that starts by dropping the tenant database
DeleteOrg_DropFirst(p) ==
  /\ pc[p] = "delete_org"
  /\ tenants' = [tenants EXCEPT ![DbNameOf(req[p].name)] = NoTenant]
  /\ Goto(p, "delete_admin", loc[p])
  /\ UNCHANGED <<orgs, admins, issued, now, req, ops, ticks, history>>

\* orgsCollection.deleteOne({organization_name})
DeleteOrg(p) ==
  /\ pc[p] = "delete_org"
  /\ orgs' = orgs \ {FindOrg(req[p].name)}
  /\ races' = IF FindOrg(req[p].name) = NoOrg
              THEN races
              ELSE {[r EXCEPT !.deleted = r.deleted \/ r.name = req[p].name] : r \in races}
  /\ Goto(p, "delete_admin", loc[p])
  /\ UNCHANGED <<admins, tenants, issued, now, req, ops, ticks, sessions, createdOk>>

\* adminCollection.deleteOne({organization_id})
DeleteAdmin(p) ==
  /\ pc[p] = "delete_admin"
  /\ admins' = admins \ {FindAdminByOrgId(loc[p].org.id)}
  /\ Goto(p, "delete_db", loc[p])
  /\ UNCHANGED <<orgs, tenants, issued, now, req, ops, ticks, history>>

\* DatabaseManager.deleteOrgDatabase: dropDatabase
DeleteOrgDatabase(p) ==
  /\ pc[p] = "delete_db"
  /\ tenants' = [tenants EXCEPT ![DbNameOf(req[p].name)] = NoTenant]
  /\ Return(p, [Ok("delete") EXCEPT !.organization_name = req[p].name])
  /\ UNCHANGED <<orgs, admins, issued, now, req, ops, ticks, history>>

(***************************************************************************)
(* AuthService.adminLogin                                                  *)
(***************************************************************************)
\* a login that tells an unknown email from a wrong password
AdminLoginResult_Leaky(email, password) ==
  IF email = NoEmail \/ password = NoPassword
  THEN Err("login", 400, "Email and password are required")
  ELSE IF FindAdminByEmail(email) = NoAdmin
  THEN Err("login", 404, "Admin not found")
  ELSE IF ~VerifyPassword(password, FindAdminByEmail(email).password)
  THEN Err("login", 401, "Invalid credentials")
  ELSE [Ok("login") EXCEPT
          !.access_token = CreateAccessToken(FindAdminByEmail(email).id,
                             FindAdminByEmail(email).organization_id,
                             FindAdminByEmail(email).organization_name,
                             FindAdminByEmail(email).role, now),
          !.refresh_token = CreateRefreshToken(FindAdminByEmail(email).id,
                              FindAdminByEmail(email).organization_id, now),
          !.expires_in = ExpiresIn,
          !.admin_id = FindAdminByEmail(email).id,
          !.organization_id = FindAdminByEmail(email).organization_id,
          !.organization_name = FindAdminByEmail(email).organization_name]

\* lines 211-238 and 249-257: the lookup, the password check, the two tokens and the result
AdminLoginResult(email, password) ==
  LET admin == FindAdminByEmail(email)
  IN IF email = NoEmail \/ password = NoPassword
     THEN Err("login", 400, "Email and password are required")
     ELSE IF admin = NoAdmin
     THEN Err("login", 401, "Invalid credentials")
     ELSE IF ~VerifyPassword(password, admin.password)
     THEN Err("login", 401, "Invalid credentials")
     ELSE [Ok("login") EXCEPT
             !.access_token = CreateAccessToken(admin.id, admin.organization_id,
                                                admin.organization_name, admin.role, now),
             !.refresh_token = CreateRefreshToken(admin.id, admin.organization_id, now),
             !.expires_in = ExpiresIn,
             !.admin_id = admin.id,
             !.organization_id = admin.organization_id,
             !.organization_name = admin.organization_name]

AdminLogin(p, email, password) ==
  /\ Begin(p, [NoReq EXCEPT !.op = "login", !.email = email, !.password = password])
  /\ IF AdminLoginResult(email, password).ok
     THEN Goto(p, "login_store", [NoLoc EXCEPT !.result = AdminLoginResult(email, password)])
     ELSE Return(p, AdminLoginResult(email, password))
  /\ UNCHANGED <<orgs, admins, tenants, issued, now, ticks, history>>

\* lines 240-257: the fingerprint of the refresh token is stored, the tokens are returned
AdminLoginStore(p) ==
  /\ pc[p] = "login_store"
  /\ admins' = {IF a.id = loc[p].result.admin_id
                THEN [a EXCEPT !.refresh_token_hash = HashToken(loc[p].result.refresh_token)]
                ELSE a : a \in admins}
  /\ issued' = issued \cup {loc[p].result.access_token, loc[p].result.refresh_token}
  /\ sessions' = Append(sessions, [sub |-> loc[p].result.admin_id,
                                   org_id |-> loc[p].result.organization_id,
                                   access |-> loc[p].result.access_token,
                                   refresh |-> loc[p].result.refresh_token,
                                   stale |-> FALSE])
  /\ Return(p, loc[p].result)
  /\ UNCHANGED <<orgs, tenants, now, req, ops, ticks, races, createdOk>>

(***************************************************************************)
(* AuthService.refreshAccessToken                                          *)
(***************************************************************************)
\* a refresh that does not look at the type of the token
RefreshResult_AnyType(adminId, refreshToken) ==
  IF ~VerifyToken(refreshToken)
  THEN Err("refresh", 401, "Token refresh failed: Invalid token")
  ELSE IF FindAdminById(adminId) = NoAdmin
  THEN Err("refresh", 401, "Token refresh failed: Admin not found")
  ELSE IF FindAdminById(adminId).refresh_token_hash # HashToken(refreshToken)
  THEN Err("refresh", 401, "Token refresh failed: Refresh token mismatch")
  ELSE [Ok("refresh") EXCEPT !.expires_in = ExpiresIn,
          !.access_token = CreateAccessToken(FindAdminById(adminId).id,
                             FindAdminById(adminId).organization_id,
                             FindAdminById(adminId).organization_name,
                             FindAdminById(adminId).role, now)]

\* a refresh that does not compare the token with the stored fingerprint
RefreshResult_NoFingerprint(adminId, refreshToken) ==
  IF ~VerifyToken(refreshToken)
  THEN Err("refresh", 401, "Token refresh failed: Invalid token")
  ELSE IF refreshToken.type # "refresh"
  THEN Err("refresh", 401, "Token refresh failed: Invalid refresh token type")
  ELSE IF FindAdminById(adminId) = NoAdmin
  THEN Err("refresh", 401, "Token refresh failed: Admin not found")
  ELSE [Ok("refresh") EXCEPT !.expires_in = ExpiresIn,
          !.access_token = CreateAccessToken(FindAdminById(adminId).id,
                             FindAdminById(adminId).organization_id,
                             FindAdminById(adminId).organization_name,
                             FindAdminById(adminId).role, now)]

\* lines 263-294: verification, type, lookup by id, comparison of fingerprints, new access token
RefreshResult(adminId, refreshToken) ==
  LET admin == FindAdminById(adminId)
  IN IF ~VerifyToken(refreshToken)
     THEN Err("refresh", 401, "Token refresh failed: Invalid token")
     ELSE IF refreshToken.type # "refresh"
     THEN Err("refresh", 401, "Token refresh failed: Invalid refresh token type")
     ELSE IF admin = NoAdmin
     THEN Err("refresh", 401, "Token refresh failed: Admin not found")
     ELSE IF admin.refresh_token_hash # HashToken(refreshToken)
     THEN Err("refresh", 401, "Token refresh failed: Refresh token mismatch")
     ELSE [Ok("refresh") EXCEPT !.expires_in = ExpiresIn,
             !.access_token = CreateAccessToken(admin.id, admin.organization_id,
                                                admin.organization_name, admin.role, now)]

\* a refresh that rotates: on success the stored fingerprint is cleared
RefreshAccessToken_Rotating(p, adminId, refreshToken) ==
  /\ Begin(p, [NoReq EXCEPT !.op = "refresh", !.adminId = adminId, !.token = refreshToken])
  /\ Return(p, RefreshResult(adminId, refreshToken))
  /\ issued' = IF RefreshResult(adminId, refreshToken).ok
               THEN issued \cup {RefreshResult(adminId, refreshToken).access_token}
               ELSE issued
  /\ admins' = IF RefreshResult(adminId, refreshToken).ok
               THEN {IF a.id = adminId THEN [a EXCEPT !.refresh_token_hash = NoTokenHash] ELSE a
                       : a \in admins}
               ELSE admins
  /\ UNCHANGED <<orgs, tenants, now, ticks, history>>

RefreshAccessToken(p, adminId, refreshToken) ==
  /\ Begin(p, [NoReq EXCEPT !.op = "refresh", !.adminId = adminId, !.token = refreshToken])
  /\ Return(p, RefreshResult(adminId, refreshToken))
  /\ issued' = IF RefreshResult(adminId, refreshToken).ok
               THEN issued \cup {RefreshResult(adminId, refreshToken).access_token}
               ELSE issued
  /\ UNCHANGED <<orgs, admins, tenants, now, ticks, history>>

(***************************************************************************)
(* GET /admin/verify-token                                                 *)
(***************************************************************************)
VerifyTokenResult(token) ==
  IF RequireAuth(token) # ""
  THEN Err("verify", 401, RequireAuth(token))
  ELSE [Ok("verify") EXCEPT !.admin_id = token.sub, !.organization_id = token.org_id,
                            !.organization_name = token.org_name, !.role = token.role]

VerifyTokenRoute(p, token) ==
  /\ Begin(p, [NoReq EXCEPT !.op = "verify", !.token = token])
  /\ Return(p, VerifyTokenResult(token))
  /\ UNCHANGED <<orgs, admins, tenants, issued, now, ticks, history>>

(***************************************************************************)
(* What a client can send: well-formed requests, requests failing each     *)
(* validation, every token the server has handed out, no token, and a      *)
(* token the server did not sign.                                          *)
(***************************************************************************)
ValidCreateInputs == OrgNames \X Emails \X {Password1}

CreateInputs ==
  ValidCreateInputs
    \cup {<<NoName, Email1, Password1>>, <<NameCo, BadEmail, Password1>>, <<NameCo, Email1, ShortPassword>>,
          <<NameCo, NoEmail, Password1>>, <<NameCo, Email1, NoPassword>>}

ValidUpdateInputs == OrgNames \X Emails \X {Password2}

UpdateInputs == ValidUpdateInputs \cup {<<NameCo, BadEmail, Password2>>}

ValidLoginInputs == Emails \X Passwords

LoginInputs == ValidLoginInputs \cup {<<Email1, NoPassword>>}

Bearers == issued \cup {NoToken, ForgedToken}

AdminIds == {a.id : a \in admins} \cup {t.sub : t \in issued}

Create(p) == \E i \in CreateInputs : CreateOrganization(p, i[1], i[2], i[3])
Get(p) == \E n \in GetNames : GetOrganization(p, n)
Update(p) ==
  \/ \E t \in issued, i \in UpdateInputs : UpdateOrganization(p, t, i[1], i[2], i[3])
  \/ \E t \in {NoToken, ForgedToken} : UpdateOrganization(p, t, NameCo, Email1, Password2)
Delete(p) ==
  \/ \E t \in issued, n \in OrgNames : DeleteOrganization(p, t, n)
  \/ \E t \in {NoToken, ForgedToken} : DeleteOrganization(p, t, NameCo)
Login(p) == \E i \in LoginInputs : AdminLogin(p, i[1], i[2])
Refresh(p) == \E a \in AdminIds, t \in issued \cup {ForgedToken} : RefreshAccessToken(p, a, t)
Verify(p) == \E t \in Bearers : VerifyTokenRoute(p, t)

\* the writing requests of the concurrent specification: well-formed, carrying a token the
\* server issued, on two organization names
ConcNames == {NameAB, NameCo}
CreateValid(p) == \E n \in ConcNames, e \in Emails : CreateOrganization(p, n, e, Password1)
UpdateValid(p) == \E t \in issued, n \in ConcNames, e \in Emails : UpdateOrganization(p, t, n, e, Password2)
DeleteValid(p) == \E t \in issued, n \in ConcNames : DeleteOrganization(p, t, n)
LoginValid(p) == \E i \in ValidLoginInputs : AdminLogin(p, i[1], i[2])

\* time passes between requests
Tick ==
  /\ \A p \in Procs : pc[p] = "idle"
  /\ ticks < MaxTicks
  /\ ticks' = ticks + 1
  /\ \E d \in {1, AccessTokenTtl} : now' = now + d
  /\ UNCHANGED <<orgs, admins, tenants, issued, pc, req, loc, resp, ops, history>>

\* requests handled one at a time
Next ==
  \/ \E p \in SeqProcs : Create(p)
  \/ \E p \in SeqProcs : CreateOrgDatabase(p)
  \/ \E p \in SeqProcs : CreateInsertUser(p)
  \/ \E p \in SeqProcs : CreateInsertAdmin(p)
  \/ \E p \in SeqProcs : CreateInsertOrg(p)
  \/ \E p \in SeqProcs : CreateLinkAdmin(p)
  \/ \E p \in SeqProcs : Get(p)
  \/ \E p \in SeqProcs : Update(p)
  \/ \E p \in SeqProcs : UpdateAdmin(p)
  \/ \E p \in SeqProcs : UpdateUser(p)
  \/ \E p \in SeqProcs : Delete(p)
  \/ \E p \in SeqProcs : DeleteOrg(p)
  \/ \E p \in SeqProcs : DeleteAdmin(p)
  \/ \E p \in SeqProcs : DeleteOrgDatabase(p)
  \/ \E p \in SeqProcs : Login(p)
  \/ \E p \in SeqProcs : AdminLoginStore(p)
  \/ \E p \in SeqProcs : Refresh(p)
  \/ \E p \in SeqProcs : Verify(p)
  \/ Tick

\* the writing requests handled concurrently, their store round trips interleaved
NextConc ==
  \/ \E p \in Procs : CreateValid(p)
  \/ \E p \in Procs : CreateOrgDatabase(p)
  \/ \E p \in Procs : CreateInsertUser(p)
  \/ \E p \in Procs : CreateInsertAdmin(p)
  \/ \E p \in Procs : CreateInsertOrg(p)
  \/ \E p \in Procs : CreateLinkAdmin(p)
  \/ \E p \in Procs : UpdateValid(p)
  \/ \E p \in Procs : UpdateAdmin(p)
  \/ \E p \in Procs : UpdateUser(p)
  \/ \E p \in Procs : DeleteValid(p)
  \/ \E p \in Procs : DeleteOrg(p)
  \/ \E p \in Procs : DeleteAdmin(p)
  \/ \E p \in Procs : DeleteOrgDatabase(p)
  \/ \E p \in Procs : LoginValid(p)
  \/ \E p \in Procs : AdminLoginStore(p)

Spec == Init /\ [][Next]_vars

SpecConc == Init /\ [][NextConc]_vars

\* the clock moves while requests are in flight: jwt.sign and jwt.verify read it when they run
TickBusy ==
  /\ ticks < MaxTicks
  /\ ticks' = ticks + 1
  /\ \E d \in {1, AccessTokenTtl - 1, AccessTokenTtl, RefreshTokenTtl - 1, RefreshTokenTtl} :
       now' = now + d
  /\ UNCHANGED <<orgs, admins, tenants, issued, pc, req, loc, resp, ops, history>>

\* the token requests handled concurrently, organizations created and deleted beside them,
\* the clock moving
NextSess ==
  \/ \E p \in SeqProcs : CreateValid(p)
  \/ \E p \in SeqProcs : CreateOrgDatabase(p)
  \/ \E p \in SeqProcs : CreateInsertUser(p)
  \/ \E p \in SeqProcs : CreateInsertAdmin(p)
  \/ \E p \in SeqProcs : CreateInsertOrg(p)
  \/ \E p \in SeqProcs : CreateLinkAdmin(p)
  \/ \E p \in SeqProcs : DeleteValid(p)
  \/ \E p \in SeqProcs : DeleteOrg(p)
  \/ \E p \in SeqProcs : DeleteAdmin(p)
  \/ \E p \in SeqProcs : DeleteOrgDatabase(p)
  \/ \E p \in Procs : LoginValid(p)
  \/ \E p \in Procs : AdminLoginStore(p)
  \/ \E p \in Procs : Refresh(p)
  \/ \E p \in Procs : Verify(p)
  \/ TickBusy

SpecSess == Init /\ [][NextSess]_vars

(***************************************************************************)
(* Store failures.  A store operation inside the try block of a service    *)
(* method throws before it writes; the catch wraps the error and rethrows, *)
(* nothing is undone, and the route answers with the status of its catch.  *)
(***************************************************************************)
\* services.js 87-89 and the catch of POST /org/create
CreateStoreFails(p) ==
  /\ pc[p] \in {"create_db", "create_user", "create_admin", "create_org", "create_link"}
  /\ CreateFailed(p)
  /\ UNCHANGED <<orgs, admins, tenants, issued, now, req, ops, ticks, history>>

\* services.js 167-169 and the catch of PUT /org/update
UpdateStoreFails(p) ==
  /\ pc[p] \in {"update_admin", "update_user"}
  /\ UpdateFailed(p)
  /\ UNCHANGED <<orgs, admins, tenants, issued, now, req, ops, ticks, history>>

\* services.js 201-203 and the catch of DELETE /org/delete: 404 for 'not found', else 403
DeleteFailed(p) == Return(p, Err("delete", 403, "Failed to delete organization"))

DeleteStoreFails(p) ==
  /\ pc[p] \in {"delete_org", "delete_admin", "delete_db"}
  /\ DeleteFailed(p)
  /\ UNCHANGED <<orgs, admins, tenants, issued, now, req, ops, ticks, history>>

CreateAnyName(p) == \E i \in ValidCreateInputs : CreateOrganization(p, i[1], i[2], i[3])
UpdateAnyName(p) == \E t \in issued, i \in ValidUpdateInputs : UpdateOrganization(p, t, i[1], i[2], i[3])
DeleteAnyName(p) == \E t \in issued, n \in OrgNames : DeleteOrganization(p, t, n)

\* requests handled one at a time, every store operation of a try block liable to fail
NextFault ==
  \/ \E p \in SeqProcs : CreateAnyName(p)
  \/ \E p \in SeqProcs : CreateOrgDatabase(p)
  \/ \E p \in SeqProcs : CreateInsertUser(p)
  \/ \E p \in SeqProcs : CreateInsertAdmin(p)
  \/ \E p \in SeqProcs : CreateInsertOrg(p)
  \/ \E p \in SeqProcs : CreateLinkAdmin(p)
  \/ \E p \in SeqProcs : CreateStoreFails(p)
  \/ \E p \in SeqProcs : UpdateAnyName(p)
  \/ \E p \in SeqProcs : UpdateAdmin(p)
  \/ \E p \in SeqProcs : UpdateUser(p)
  \/ \E p \in SeqProcs : UpdateStoreFails(p)
  \/ \E p \in SeqProcs : DeleteAnyName(p)
  \/ \E p \in SeqProcs : DeleteOrg(p)
  \/ \E p \in SeqProcs : DeleteAdmin(p)
  \/ \E p \in SeqProcs : DeleteOrgDatabase(p)
  \/ \E p \in SeqProcs : DeleteStoreFails(p)
  \/ \E p \in SeqProcs : LoginValid(p)
  \/ \E p \in SeqProcs : AdminLoginStore(p)

SpecFault == Init /\ [][NextFault]_vars

(***************************************************************************)
(* Properties.                                                             *)
(***************************************************************************)
\* handler p has returned from a request of kind op
Done(p, op) == pc[p] = "idle" /\ resp[p].op = op

\* in this step handler p receives a request of kind op
Began(p, op) == pc[p] = "idle" /\ ops' = ops + 1 /\ req'[p].no = ops + 1 /\ req'[p].op = op

InvalidCredentials == Err("login", 401, "Invalid credentials")
AlreadyExists == Err("create", 409, "Organization with this name already exists")
OrgNotFound(op) == Err(op, 404, "Organization not found")

AllPasswords == {Password1, Password2, ShortPassword, NoPassword}

\* the namespace derivation as the specification words it: the name in lower case, every
\* whitespace character that follows another dropped, the remaining ones made "_", after "org_"
NamespaceFor(name) ==
  LET low == [i \in 1..Len(name) |-> ToLowerChar(name[i])]
      kept == {i \in 1..Len(low) : ~(IsSpace(low[i]) /\ i > 1 /\ IsSpace(low[i - 1]))}
      nth(k) == CHOOSE i \in kept : Cardinality({j \in kept : j < i}) = k - 1
  IN <<"o", "r", "g", "_">> \o
       [k \in 1..Cardinality(kept) |-> IF IsSpace(low[nth(k)]) THEN "_" ELSE low[nth(k)]]

\* C1: once createOrganization(name, email, password) has returned success, getOrganization(name)
\* returns a record whose db_name is the derivation of name, and create returned the same db_name.
C1_CreateThenGetNamespace ==
  \A p \in Procs :
    (Done(p, "create") /\ resp[p].ok) =>
      LET got == GetOrganizationResult(req[p].name)
      IN /\ got.ok
         /\ got.db_name = NamespaceFor(req[p].name)
         /\ resp[p].db_name = got.db_name

C1_Witness ==
  \E p \in Procs :
    /\ Done(p, "create") /\ resp[p].ok
    /\ req[p].name = NameA2B
    /\ GetOrganizationResult(NameA2B).db_name = <<"o", "r", "g", "_", "a", "_", "b">>

C3_LoginAnyOtherPassword ==
  \A p \in Procs :
    (Done(p, "create") /\ resp[p].ok) =>
      /\ AdminLoginResult(req[p].email, req[p].password).ok
      /\ AdminLoginResult(req[p].email, req[p].password).access_token \notin {NoToken}
      /\ AdminLoginResult(req[p].email, req[p].password).refresh_token \notin {NoToken}
      /\ \A w \in AllPasswords \ {req[p].password} :
           AdminLoginResult(req[p].email, w) = InvalidCredentials

\* C3 amended: the same, for every other non-empty w.
C3_LoginOtherPassword ==
  \A p \in Procs :
    (Done(p, "create") /\ resp[p].ok) =>
      /\ AdminLoginResult(req[p].email, req[p].password).ok
      /\ AdminLoginResult(req[p].email, req[p].password).access_token \notin {NoToken}
      /\ AdminLoginResult(req[p].email, req[p].password).refresh_token \notin {NoToken}
      /\ \A w \in AllPasswords \ {req[p].password, NoPassword} :
           AdminLoginResult(req[p].email, w) = InvalidCredentials

C3_Witness ==
  \E p \in Procs :
    /\ Done(p, "create") /\ resp[p].ok
    /\ req[p].email = Email2
    /\ AdminLoginResult(Email2, Password1).ok
    /\ ~AdminLoginResult(Email2, Password2).ok

\* C4: a login that fails, whether because no principal has the email or because the password
\* is wrong, is answered by the same error and status, and writes nothing.
C4_SameLoginError ==
  /\ [](\A p \in Procs :
          (Done(p, "login") /\ ~resp[p].ok /\ req[p].email # NoEmail /\ req[p].password # NoPassword)
            => resp[p] = InvalidCredentials)
  /\ [][\A p \in Procs :
          (Began(p, "login") /\ pc'[p] = "idle") =>
             /\ ~resp'[p].ok
             /\ UNCHANGED <<orgs, admins, tenants, issued>>]_vars

C4_Witness ==
  \E p \in Procs :
    /\ Done(p, "login") /\ resp[p] = InvalidCredentials
    /\ \E a \in admins : a.admin_email = req[p].email /\ a.refresh_token_hash # NoTokenHash
    /\ AdminLoginResult(Email2, Password1) = InvalidCredentials
    /\ \A a \in admins : a.admin_email # Email2

\* C5: once updateOrganization(name, newEmail, newPassword) has returned success, adminLogin with
\* newEmail and newPassword succeeds and adminLogin with newEmail and any other password, the
\* old one among them, fails with InvalidCredentials.
C5_UpdateThenLogin ==
  \A p \in Procs :
    (Done(p, "update") /\ resp[p].ok) =>
      /\ AdminLoginResult(req[p].email, req[p].password).ok
      /\ \A w \in Passwords \ {req[p].password} :
           AdminLoginResult(req[p].email, w) = InvalidCredentials

\* the third request: after a creation with Password1 and a login, Password2 and another email
C5_Witness ==
  \E p \in Procs :
    /\ Done(p, "update") /\ resp[p].ok
    /\ req[p].no = 3
    /\ req[p].password = Password2
    /\ FindOrg(req[p].name).admin_email # req[p].email

\* a token of a session is accepted: the access token by verifyToken, or the refresh token by
\* refreshAccessToken for the session's principal
Accepted(s) == VerifyToken(s.access) \/ RefreshResult(s.sub, s.refresh).ok

\* C6: for one organization, no session of a login made before an update of the credentials is
\* accepted while a session of a login made after the update, with other tokens, is accepted.
C6_OldAndNewSessionsExclusive ==
  \A i, j \in DOMAIN sessions :
    ( /\ sessions[i].stale
      /\ ~sessions[j].stale
      /\ sessions[i].org_id = sessions[j].org_id
      /\ sessions[i].access # sessions[j].access
      /\ sessions[i].refresh # sessions[j].refresh )
    => ~(Accepted(sessions[i]) /\ Accepted(sessions[j]))

RefreshMismatch == Err("refresh", 401, "Token refresh failed: Refresh token mismatch")

\* C7: the refresh token of a login is accepted for its principal, and once the same principal
\* has logged in again the refresh token of the earlier login is answered RefreshMismatch
\* (as long as the principal exists and the token has not expired, where other errors apply).
C7_LaterLoginRevokesRefresh ==
  /\ \A p \in Procs :
       (Done(p, "login") /\ resp[p].ok /\ VerifyToken(resp[p].refresh_token)
          /\ FindAdminById(resp[p].admin_id) # NoAdmin)
         => RefreshResult(resp[p].admin_id, resp[p].refresh_token).ok
  /\ \A i, j \in DOMAIN sessions :
       ( /\ i < j
         /\ sessions[i].sub = sessions[j].sub
         /\ FindAdminById(sessions[i].sub) # NoAdmin
         /\ VerifyToken(sessions[i].refresh) )
       => RefreshResult(sessions[i].sub, sessions[i].refresh) = RefreshMismatch

\* C8: once deleteOrganization(name) has returned success, getOrganization(name) and another
\* deleteOrganization(name) by an authorised caller are answered NotFound; they are so whenever
\* the registry has no record of the name, and a record of the name appears again only by the
\* insertion step of a createOrganization of that name.
C8_DeletedStaysNotFound ==
  /\ [](\A p \in Procs :
          (Done(p, "delete") /\ resp[p].ok) => ~\E o \in orgs : o.organization_name = req[p].name)
  /\ [](\A n \in OrgNames :
          (~\E o \in orgs : o.organization_name = n) =>
             /\ GetOrganizationResult(n) = OrgNotFound("get")
             /\ \A t \in issued : Gate(t, n) = "" => DeleteCheck(t, n) = OrgNotFound("delete"))
  /\ [][\A n \in OrgNames :
          ((~\E o \in orgs : o.organization_name = n) /\ (\E o \in orgs' : o.organization_name = n))
            => \E p \in Procs : pc[p] = "create_org" /\ req[p].op = "create" /\ req[p].name = n]_vars

C8_Witness ==
  \E p \in Procs :
    /\ Done(p, "delete") /\ resp[p].ok
    /\ GetOrganizationResult(req[p].name) = OrgNotFound("get")
    /\ Gate(req[p].token, req[p].name) = ""
    /\ DeleteCheck(req[p].token, req[p].name) = OrgNotFound("delete")

OneRecordPerName ==
  \A o1, o2 \in orgs : o1.organization_name = o2.organization_name => o1 = o2

\* C9 as stated: the registry never holds two records of one name, and of two createOrganization
\* calls of one name that both passed the existence check before either wrote, at most one
\* returns success.
C9_RacingCreatesOneSuccess ==
  /\ OneRecordPerName
  /\ \A r \in races : ~(r.first \in createdOk /\ r.second \in createdOk)

\* C9 amended: the same, unless a record of that name was deleted while the two calls raced.
C9_RacingCreatesOneSuccessUnlessDeleted ==
  /\ OneRecordPerName
  /\ \A r \in races : ~r.deleted => ~(r.first \in createdOk /\ r.second \in createdOk)

\* both calls passed the check, one has returned success and the other the wrapped store error
C9_Witness ==
  \E r \in races, p \in Procs :
    /\ ~r.deleted
    /\ req[p].no \in {r.first, r.second}
    /\ Done(p, "create") /\ resp[p] = Err("create", 400, "Failed to create organization")
    /\ \E n \in {r.first, r.second} \ {req[p].no} : n \in createdOk
    /\ \E o \in orgs : o.organization_name = r.name /\ o.admin_email # req[p].email

\* C10: no two admin principals of the registry have the same admin_email.
C10_AdminEmailUnique ==
  \A a1, a2 \in admins : a1.admin_email = a2.admin_email => a1 = a2

\* an update to the email of another organization's admin has been refused by the index
C10_Witness ==
  \E p \in Procs :
    /\ Done(p, "update") /\ resp[p] = Err("update", 400, "Failed to update organization")
    /\ \E a \in admins : a.admin_email = req[p].email /\ a.organization_name # req[p].name
    /\ \E a \in admins : a.admin_email # req[p].email /\ a.organization_name = req[p].name

\* C11: no two organization records of the registry have the same db_name.
C11_NamespaceUnique ==
  \A o1, o2 \in orgs : o1.db_name = o2.db_name => o1 = o2

\* the refresh tokens signed for principal id by the logins that have persisted
RefreshTokensOf(id) == {t \in issued : t.type = "refresh" /\ t.sub = id}

LoginInFlight(id) == \E p \in Procs : pc[p] = "login_store" /\ loc[p].result.admin_id = id

\* C12: when no login of a principal is between issuing its tokens and persisting the
\* fingerprint, the stored refresh_token_hash is the fingerprint of the refresh token issued
\* to it last.
C12_StoredHashIsLatestRefresh ==
  \A a \in admins :
    (~LoginInFlight(a.id) /\ RefreshTokensOf(a.id) # {}) =>
      \E t \in RefreshTokensOf(a.id) :
        /\ \A u \in RefreshTokensOf(a.id) : u.iat <= t.iat
        /\ a.refresh_token_hash = HashToken(t)

\* C13: once updateOrganization(name, newEmail, newPassword) has returned success, the admin
\* principal of the organization and a user of its tenant store both hold newEmail and one
\* hash of newPassword.
C13_UpdateReachesTenantMirror ==
  \A p \in Procs :
    (Done(p, "update") /\ resp[p].ok) =>
      LET org == FindOrg(req[p].name)
          admin == FindAdminByOrgId(org.id)
      IN /\ admin.admin_email = req[p].email
         /\ VerifyPassword(req[p].password, admin.password)
         /\ \E u \in tenants[org.db_name].users :
              u.email = req[p].email /\ u.password = admin.password

\* C14: once updateOrganization(name, newEmail, newPassword) has returned success,
\* getOrganization(name) returns admin_email = newEmail, the email of the admin principal.
C14_UpdateReachesOrganizationRecord ==
  \A p \in Procs :
    (Done(p, "update") /\ resp[p].ok) =>
      /\ GetOrganizationResult(req[p].name).ok
      /\ GetOrganizationResult(req[p].name).admin_email = req[p].email
      /\ FindAdminByOrgId(FindOrg(req[p].name).id).admin_email = req[p].email

InvalidRefreshToken ==
  {Err("refresh", 401, "Token refresh failed: Invalid token"),
   Err("refresh", 401, "Token refresh failed: Invalid refresh token type")}

RefreshNotFound == Err("refresh", 401, "Token refresh failed: Admin not found")

C16_RefreshDoesNotRotate ==
  /\ [][\A p \in Procs :
          (Began(p, "refresh") /\ resp'[p].ok) =>
             /\ resp'[p].access_token # NoToken
             /\ resp'[p].access_token \in issued'
             /\ resp'[p].refresh_token = NoToken
             /\ UNCHANGED <<orgs, admins, tenants>>]_vars
  /\ [][\A a \in AdminIds, t \in issued :
          (RefreshResult(a, t).ok /\ ~(RefreshResult(a, t).ok)') =>
             \/ \E q \in Procs : /\ pc[q] = "login_store" /\ pc'[q] = "idle"
                                 /\ loc[q].result.admin_id = a
             \/ ~\E x \in admins' : x.id = a
             \/ ~VerifyToken(t)']_vars

\* two refreshes of one principal with one refresh token have both succeeded
C16_Witness ==
  /\ \A p \in Procs : Done(p, "refresh") /\ resp[p].ok
  /\ \A p, q \in Procs : req[p].token = req[q].token /\ req[p].adminId = req[q].adminId
  /\ \A p \in Procs : RefreshResult(req[p].adminId, req[p].token).ok

InvalidToken == Err("verify", 401, "INVALID_TOKEN")

\* C17: a signed access token verifies exactly while less than 15 minutes have passed since
\* it was issued and is answered InvalidToken from then on; a refresh token whose fingerprint
\* is the stored one is accepted by refreshAccessToken exactly while less than 7 days have
\* passed and is answered InvalidRefreshToken from then on; expires_in of a login and of a
\* refresh is 900, the validity of the access token returned.
C17_TokenValidityWindows ==
  /\ \A t \in issued :
       /\ t.type = "" =>
            /\ VerifyTokenResult(t).ok <=> now - t.iat < 15 * 60
            /\ ~VerifyTokenResult(t).ok => VerifyTokenResult(t) = InvalidToken
       /\ (t.type = "refresh"
             /\ \E a \in admins : a.id = t.sub /\ a.refresh_token_hash = HashToken(t)) =>
            /\ RefreshResult(t.sub, t).ok <=> now - t.iat < 7 * 24 * 60 * 60
            /\ ~RefreshResult(t.sub, t).ok => RefreshResult(t.sub, t) \in InvalidRefreshToken
  /\ \A p \in Procs :
       ((Done(p, "login") \/ Done(p, "refresh")) /\ resp[p].ok) =>
          /\ resp[p].expires_in = 900
          /\ resp[p].access_token.exp - resp[p].access_token.iat = resp[p].expires_in

\* one second before the end of the 15 minutes the access token of a login has been verified
\* by the route and its refresh token is accepted
C17_Witness ==
  \E i \in DOMAIN sessions :
    /\ now - sessions[i].access.iat = 15 * 60 - 1
    /\ VerifyTokenResult(sessions[i].access).ok
    /\ RefreshResult(sessions[i].sub, sessions[i].refresh).ok
    /\ \E p \in Procs : Done(p, "verify") /\ resp[p].ok /\ req[p].token = sessions[i].access

\* C18: the access token returned by a successful adminLogin verifies and decodes to the id of
\* the admin principal, the id and the name of its organization record and the role
\* 'org_admin'; admin_id, organization_id and organization_name of the result are the same.
C18_LoginTokenContents ==
  \A p \in Procs :
    (Done(p, "login") /\ resp[p].ok /\ now = resp[p].access_token.iat) =>
      LET admin == FindAdminByEmail(req[p].email)
          org == FindOrg(admin.organization_name)
          decoded == VerifyTokenResult(resp[p].access_token)
      IN /\ admin # NoAdmin /\ org # NoOrg
         /\ decoded.ok
         /\ decoded.admin_id = admin.id
         /\ decoded.organization_id = org.id
         /\ decoded.organization_name = org.organization_name
         /\ decoded.role = "org_admin"
         /\ resp[p].admin_id = decoded.admin_id
         /\ resp[p].organization_id = decoded.organization_id
         /\ resp[p].organization_name = decoded.organization_name

\* a login of the admin with the second email to organization 'A b', two organizations present
C18_Witness ==
  \E p \in Procs :
    /\ Done(p, "login") /\ resp[p].ok
    /\ VerifyTokenResult(resp[p].access_token).ok
    /\ resp[p].access_token.org_name = NameAB
    /\ resp[p].access_token.org_id = FindOrg(NameAB).id
    /\ resp[p].access_token.sub = FindAdminByEmail(Email2).id
    /\ Cardinality(orgs) = 2

Unauthorized(op) == {Err(op, 401, "MISSING_TOKEN"), Err(op, 401, "INVALID_TOKEN")}
Forbidden(op) == Err(op, 403, "FORBIDDEN")

\* the bearer token is signed by the server and has not expired
Verifies(t) == t \in issued /\ now < t.exp

ValidationFailure(op) ==
  {Err(op, 400, "Organization name, email, and password are required"),
   Err(op, 400, "Invalid email format"),
   Err(op, 400, "Password must be at least 6 characters")}

\* C20: createOrganization with a missing name, email or password, a malformed email or a
\* password of fewer than 6 characters is answered with a validation error, the same whatever
\* the store holds, in its first step and without a write: nothing is provisioned.
C20_CreateValidatesFirst ==
  [][\A p \in Procs :
       Began(p, "create") =>
         LET n == req'[p].name
             e == req'[p].email
             w == req'[p].password
             missing == n = <<>> \/ e = <<>> \/ w = ""
             malformed == Cardinality({i \in 1..Len(e) : e[i] = "@"}) # 1
             short == Len(w) < 6
         IN (missing \/ malformed \/ short) =>
              /\ pc'[p] = "idle"
              /\ resp'[p] \in ValidationFailure("create")
              /\ missing => resp'[p].error = "Organization name, email, and password are required"
              /\ UNCHANGED <<orgs, admins, tenants>>]_vars

\* a malformed email has been refused for a name the registry holds
C20_Witness ==
  \E p \in Procs :
    /\ Done(p, "create") /\ resp[p] = Err("create", 400, "Invalid email format")
    /\ \E o \in orgs : o.organization_name = req[p].name
    /\ \A d \in DbNames : tenants[d].exists => \E o \in orgs : o.db_name = d

\* handler p takes a step of its request in this transition
Steps(p) == pc'[p] # pc[p] \/ req'[p] # req[p]

\* the admin principals that refer to organization record o
PrincipalsOf(o) == {a \in admins : a.organization_id = o.id}

\* C21: a step of a create, update or delete request that targets organization A leaves, for
\* every other organization B of the registry, B's record, B's admin principal and the contents
\* of B's tenant store as they were.
C21_OtherTenantsUntouched ==
  [][\A p \in Procs :
       (Steps(p) /\ req'[p].op \in {"create", "update", "delete"}) =>
         \A b \in orgs :
           b.organization_name # req'[p].name =>
             /\ b \in orgs'
             /\ \A a \in PrincipalsOf(b) : a \in admins'
             /\ tenants'[b.db_name] = tenants[b.db_name]]_vars

\* C22: getOrganization(name) returns the registry record whose organization_name is exactly
\* name, letter case included, and is answered NotFound (404) when there is none; the call
\* returns in one step and writes nothing.  An updateOrganization on a name without a record
\* fails and writes nothing, and is answered NotFound (404) when the request is admitted and
\* its inputs are well-formed.
C22_GetIsPureRead ==
  /\ [](\A n \in GetNames :
          LET got == GetOrganizationResult(n)
          IN /\ (\E o \in orgs : o.organization_name = n) =>
                  \E o \in orgs :
                    /\ o.organization_name = n
                    /\ got.ok /\ got.status = 200
                    /\ got.id = o.id /\ got.organization_name = n
                    /\ got.db_name = o.db_name /\ got.admin_email = o.admin_email
             /\ (~\E o \in orgs : o.organization_name = n) =>
                  /\ got = OrgNotFound("get")
                  /\ got.status = 404)
  /\ [][\A p \in Procs :
          Began(p, "get") =>
            /\ pc'[p] = "idle"
            /\ resp'[p] = GetOrganizationResult(req'[p].name)
            /\ UNCHANGED <<orgs, admins, tenants, issued>>]_vars
  /\ [][\A p \in Procs :
          (Began(p, "update") /\ ~\E o \in orgs : o.organization_name = req'[p].name) =>
            /\ pc'[p] = "idle"
            /\ ~resp'[p].ok
            /\ UNCHANGED <<orgs, admins, tenants, issued>>
            /\ (Gate(req'[p].token, req'[p].name) = "" /\ IsEmail(req'[p].email)
                  /\ req'[p].password # NoPassword)
                 => resp'[p] = OrgNotFound("update")]_vars

\* 'a b' has been looked up and not found while the registry holds 'A b'
C22_Witness ==
  \E p \in Procs :
    /\ Done(p, "get") /\ resp[p] = OrgNotFound("get")
    /\ req[p].name = NameLowerAB
    /\ GetOrganizationResult(NameAB).ok
    /\ GetOrganizationResult(NameAB).organization_name = NameAB

\* the wrapped errors of the catch blocks of create, update and delete
StoreFailure ==
  {"Failed to create organization", "Failed to update organization", "Failed to delete organization"}

\* C23: a failure answered to a client has the status of its category: a duplicate organization
\* name 409, an absent organization 404, a failed login 401, a principal acting on another
\* organization 403, invalid input 400, and a store failure during create, update or delete 500.
C23_StatusCategories ==
  \A p \in Procs :
    (pc[p] = "idle" /\ resp[p].op # "none" /\ ~resp[p].ok) =>
      /\ resp[p].error = "Organization with this name already exists" => resp[p].status = 409
      /\ resp[p].error = "Organization not found" => resp[p].status = 404
      /\ resp[p].error = "Invalid credentials" => resp[p].status = 401
      /\ resp[p].error = "FORBIDDEN" => resp[p].status = 403
      /\ resp[p] \in ValidationFailure(resp[p].op) => resp[p].status = 400
      /\ resp[p].error \in StoreFailure => resp[p].status = 500

\* the documents written by the creation with request number no
UserWritten(no, name) ==
  DbNameOf(name) \in DbNames /\ \E u \in tenants[DbNameOf(name)].users : u.id = NewObjectId(no, 1)
PrincipalWritten(no) == \E a \in admins : a.id = NewObjectId(no, 2)
RecordWritten(no) == \E o \in orgs : o.id = NewObjectId(no, 3)

\* C24: createOrganization writes the admin principal, then the tenant-local user, then the
\* organization record: while a creation is in flight and after it has failed, its tenant-local
\* user exists only if its admin principal has been written, and its organization record only
\* if both have.
C24_PrincipalBeforeMirror ==
  \A p \in Procs :
    (req[p].op = "create" /\ (pc[p] # "idle" \/ ~resp[p].ok)) =>
      /\ UserWritten(req[p].no, req[p].name) => PrincipalWritten(req[p].no)
      /\ RecordWritten(req[p].no) =>
           UserWritten(req[p].no, req[p].name) /\ PrincipalWritten(req[p].no)

C26_PrincipalRefersToRecord ==
  (\A p \in Procs : pc[p] = "idle") =>
    \A a \in admins :
      /\ a.organization_id # 0
      /\ \E o \in orgs : o.id = a.organization_id

\* C27: once createOrganization has returned success, admin_user_id of the organization record
\* is the id of the admin principal whose organization_id is the id of the record, the subject
\* of the tokens a login of that admin is given.
C27_AdminReferenceIsPrincipal ==
  \A p \in Procs :
    (Done(p, "create") /\ resp[p].ok) =>
      LET org == FindOrg(req[p].name)
          admin == FindAdminByOrgId(org.id)
          login == AdminLoginResult(req[p].email, req[p].password)
      IN /\ org # NoOrg /\ admin # NoAdmin
         /\ org.admin_user_id = admin.id
         /\ login.ok => /\ login.access_token.sub = org.admin_user_id
                        /\ login.refresh_token.sub = org.admin_user_id

\* C28: a createOrganization with well-formed inputs that has failed while an admin principal
\* of another organization holds its email has been answered in the category of AlreadyExists,
\* that of a duplicate name (409), and no two principals have that email.
C28_DuplicateEmailIsConflict ==
  \A p \in Procs :
    ( /\ Done(p, "create") /\ ~resp[p].ok
      /\ resp[p] \notin ValidationFailure("create")
      /\ \E a \in admins : a.admin_email = req[p].email /\ a.organization_name # req[p].name )
    => /\ resp[p].status = AlreadyExists.status
       /\ \A a1, a2 \in admins : a1.admin_email = req[p].email /\ a2.admin_email = req[p].email => a1 = a2

\* C29: refreshAccessToken(adminId, token) succeeds only if the subject of the token is
\* adminId and the token is the refresh token of a login of that principal; the access token
\* returned carries the id, the organization and the role of that principal; a refresh token
\* issued to one principal is never accepted for another.
C29_RefreshOnlyForSubject ==
  /\ [](\A a \in AdminIds, t \in issued \cup {ForgedToken} :
          LET r == RefreshResult(a, t)
              admin == FindAdminById(t.sub)
          IN r.ok =>
               /\ t.sub = a
               /\ \E i \in DOMAIN sessions : sessions[i].refresh = t /\ sessions[i].sub = a
               /\ admin # NoAdmin
               /\ r.access_token.sub = t.sub
               /\ r.access_token.org_id = admin.organization_id
               /\ r.access_token.org_name = admin.organization_name
               /\ r.access_token.role = admin.role
               /\ t.org_id # 0 => r.access_token.org_id = t.org_id)
  /\ [][\A p \in Procs :
          (Began(p, "refresh") /\ resp'[p].ok) =>
             /\ req'[p].token.sub = req'[p].adminId
             /\ resp'[p].access_token.sub = req'[p].adminId]_vars

\* the valid refresh token of one principal has been refused for another principal
C29_Witness ==
  \E p \in Procs :
    /\ Done(p, "refresh") /\ resp[p] = RefreshMismatch
    /\ req[p].token.sub # req[p].adminId
    /\ RefreshResult(req[p].token.sub, req[p].token).ok
    /\ \E a \in admins : a.id = req[p].adminId

\* the admin principals of a deleted organization of that name: they refer to an organization
\* record that the registry no longer holds
PrincipalsOfDeleted(name) ==
  {a \in admins : /\ a.organization_name = name
                  /\ a.organization_id # 0
                  /\ ~\E o \in orgs : o.id = a.organization_id}

\* C30: when deleteOrganization(name) has returned success and no request is in flight, no
\* admin principal of the deleted organization is left in the registry: no adminLogin returns
\* tokens for such a principal and no refresh token is accepted for one.
C30_DeletedPrincipalGone ==
  \A p \in Procs :
    ((\A q \in Procs : pc[q] = "idle") /\ Done(p, "delete") /\ resp[p].ok) =>
      /\ PrincipalsOfDeleted(req[p].name) = {}
      /\ \A e \in Emails, w \in Passwords :
           AdminLoginResult(e, w).ok =>
             AdminLoginResult(e, w).admin_id \notin {a.id : a \in PrincipalsOfDeleted(req[p].name)}
      /\ \A t \in issued :
           RefreshResult(t.sub, t).ok =>
             t.sub \notin {a.id : a \in PrincipalsOfDeleted(req[p].name)}

\* C31: a verified token of an org_admin whose org_id is not the id of an organization record,
\* or whose subject is not the admin principal of that record, is not admitted to update or
\* to delete that organization, whatever its org_name.
C31_TokenBoundToOrganization ==
  \A t \in issued, o \in orgs :
    ( /\ VerifyToken(t)
      /\ t.role = "org_admin"
      /\ t.org_id # o.id \/ t.sub \notin {a.id : a \in PrincipalsOf(o)} )
    => /\ DeleteCheck(t, o.organization_name) # NoResp
       /\ \A e \in Emails : UpdateCheck(t, o.organization_name, e, Password2) # NoResp

\* the number of the request that inserted the document with this id
RequestOf(id) == (id - 1) \div 3 + 1

\* the users of a tenant database left there by creations that failed
ResidueUsers(dbName) ==
  {u \in tenants[dbName].users :
     /\ RequestOf(u.id) \notin createdOk
     /\ ~\E q \in Procs : pc[q] # "idle" /\ req[q].op = "create" /\ req[q].no = RequestOf(u.id)}

\* C32: what a failed createOrganization has left behind does not make a later creation fail:
\* when a creation of a name that has no record, with an email that no admin principal holds,
\* is about to insert its tenant-local user, no user left by a failed creation has that email
\* under the unique index of the tenant database.
C32_FailedCreateDoesNotBlock ==
  \A p \in Procs :
    ( /\ req[p].op = "create" /\ pc[p] = "create_user"
      /\ ~\E o \in orgs : o.organization_name = req[p].name
      /\ ~\E a \in admins : a.admin_email = req[p].email )
    => ~( /\ tenants[loc[p].dbName].uniqueEmail
          /\ \E u \in ResidueUsers(loc[p].dbName) : u.email = req[p].email )
====
